---- MODULE Spec2Model ----
(***************************************************************************)
(* Model of the two batch scripts of statatlas:                            *)
(*   scripts/clean_data.py        (the cleaner, update_json_file)          *)
(*   scripts/extract_raw_data.py  (the extractor, a module-level script)   *)
(*                                                                         *)
(* JSON text on disk is modelled by JSON tokens (J...), values inside the  *)
(* Python process by Python values (P...); json_load and json_dump convert *)
(* between the two.                                                        *)
(***************************************************************************)
EXTENDS Integers, Sequences, FiniteSets, TLC

VARIABLES
    \* ---- cleaner (clean_data.py) ----
    file,       \* the file at file_path: [exists, doc]
    file0,      \* history: the file before the first run
    fileprev,   \* history: the file before the latest run
    cstatus,    \* "idle" | "done" (run returned) | "failed" (run raised)
    cruns,      \* number of runs started so far
    \* ---- direct calls of the cleaner's functions ----
    pin,        \* the argument (a loaded JSON document)
    pout,       \* result of the call
    pout2,      \* result of calling again on the result
    ppc,        \* "in" | "called" | "raised" | "recalled"
    \* ---- extractor (extract_raw_data.py) ----
    argv,       \* sys.argv (argv[1] is the script name)
    pc,         \* position in the script
    exitcode,   \* process exit status, -1 while running
    opened,     \* TRUE once the CSV file has been opened
    fieldnames, \* reader.fieldnames (<<>> for an empty file)
    rowsRead,   \* history: the CSV lines the reader has consumed
    data,       \* the list `data`
    outfiles,   \* output path -> [exists, doc]
    outfiles0   \* history: outfiles at process start

vars == <<file, file0, fileprev, cstatus, cruns, pin, pout, pout2, ppc,
          argv, pc, exitcode, opened, fieldnames, rowsRead, data,
          outfiles, outfiles0>>

cleanerVars == <<file, file0, fileprev, cstatus, cruns>>
pureVars == <<pin, pout, pout2, ppc>>
extractVars == <<argv, pc, exitcode, opened, fieldnames, rowsRead, data,
                 outfiles, outfiles0>>

(***************************************************************************)
(* Bounds                                                                  *)
(***************************************************************************)
MaxEntries == 2
MaxRuns == 2
MaxRows == 2

(***************************************************************************)
(* JSON tokens and Python values                                           *)
(***************************************************************************)
JInt(n) == [k |-> "int", n |-> n, s |-> ""]
JReal(n) == [k |-> "real", n |-> n, s |-> ""]
JLit(s) == [k |-> "lit", n |-> 0, s |-> s]
JStr(s) == [k |-> "str", n |-> 0, s |-> s]
JObj == [k |-> "obj", n |-> 0, s |-> ""]

PInt(n) == [ty |-> "int", n |-> n, s |-> ""]
PFloat(n) == [ty |-> "float", n |-> n, s |-> ""]
PNan == [ty |-> "float", n |-> 0, s |-> "nan"]
PInf == [ty |-> "float", n |-> 0, s |-> "inf"]
PNegInf == [ty |-> "float", n |-> 0, s |-> "-inf"]
PBool(b) == [ty |-> "bool", n |-> IF b THEN 1 ELSE 0, s |-> ""]
PNone == [ty |-> "NoneType", n |-> 0, s |-> ""]
PStr(s) == [ty |-> "str", n |-> 0, s |-> s]
PDict == [ty |-> "dict", n |-> 0, s |-> ""]

\* json.load on one scalar token (Python's decoder accepts NaN and +-Infinity)
json_load(t) ==
    CASE t.k = "int" -> PInt(t.n)
      [] t.k = "real" -> PFloat(t.n)
      [] t.k = "str" -> PStr(t.s)
      [] t.k = "obj" -> PDict
      [] t.k = "lit" /\ t.s = "NaN" -> PNan
      [] t.k = "lit" /\ t.s = "Infinity" -> PInf
      [] t.k = "lit" /\ t.s = "-Infinity" -> PNegInf
      [] t.k = "lit" /\ t.s = "true" -> PBool(TRUE)
      [] t.k = "lit" /\ t.s = "false" -> PBool(FALSE)
      [] OTHER -> PNone

\* json.dump on one scalar value (allow_nan is left at its default, True)
json_dump(v) ==
    CASE v.ty = "int" -> JInt(v.n)
      [] v.ty = "float" /\ v.s = "" -> JReal(v.n)
      [] v.ty = "float" /\ v.s = "nan" -> JLit("NaN")
      [] v.ty = "float" /\ v.s = "inf" -> JLit("Infinity")
      [] v.ty = "float" /\ v.s = "-inf" -> JLit("-Infinity")
      [] v.ty = "bool" -> JLit(IF v.n = 1 THEN "true" ELSE "false")
      [] v.ty = "str" -> JStr(v.s)
      [] v.ty = "dict" -> JObj
      [] OTHER -> JLit("null")

\* json.load ("load") or json.dump ("dump") on one scalar
Convert(dir, x) == IF dir = "load" THEN json_load(x) ELSE json_dump(x)

\* A value mapping is an ordered list of [key, val] pairs (dicts keep file order)
ConvertPairs(dir, m) ==
    [i \in 1..Len(m) |-> [key |-> m[i].key, val |-> Convert(dir, m[i].val)]]

ConvertEntry(dir, e) ==
    [x \in DOMAIN e |-> IF x = "values" THEN ConvertPairs(dir, e[x])
                        ELSE Convert(dir, e[x])]

ConvertEntries(dir, es) == [i \in 1..Len(es) |-> ConvertEntry(dir, es[i])]

ListFields == {"data", "only_countries"}

ConvertDoc(dir, d) ==
    [x \in DOMAIN d |-> IF x \in ListFields THEN ConvertEntries(dir, d[x])
                        ELSE Convert(dir, d[x])]

json_load_doc(d) == ConvertDoc("load", d)
json_dump_doc(d) == ConvertDoc("dump", d)

\* dict[key] = value
Put(d, key, value) ==
    [x \in DOMAIN d \cup {key} |-> IF x = key THEN value ELSE d[x]]

\* dict.get(key, default)
Get(d, key, default) == IF key \in DOMAIN d THEN d[key] ELSE default

EmptyDoc == [x \in {} |-> 0]
NoFile == [exists |-> FALSE, doc |-> EmptyDoc]
FileOf(d) == [exists |-> TRUE, doc |-> d]

(***************************************************************************)
(* clean_data.py                                                           *)
(***************************************************************************)
REAL_COUNTRY_CODES == {
    "AFG","ALB","DZA","AND","AGO","ATG","ARG","ARM","AUS","AUT","AZE","BHS","BHR","BGD","BRB",
    "BLR","BEL","BLZ","BEN","BTN","BOL","BIH","BWA","BRA","BRN","BGR","BFA","BDI","CPV","KHM",
    "CMR","CAN","CAF","TCD","CHL","CHN","COL","COM","COG","COD","CRI","CIV","HRV","CUB","CYP",
    "CZE","DNK","DJI","DMA","DOM","ECU","EGY","SLV","GNQ","ERI","EST","SWZ","ETH","FJI","FIN",
    "FRA","GAB","GMB","GEO","DEU","GHA","GRC","GRD","GTM","GIN","GNB","GUY","HTI","HND","HUN",
    "ISL","IND","IDN","IRN","IRQ","IRL","ISR","ITA","JAM","JPN","JOR","KAZ","KEN","KIR","KWT",
    "KGZ","LAO","LVA","LBN","LSO","LBR","LBY","LIE","LTU","LUX","MDG","MWI","MYS","MDV","MLI",
    "MLT","MHL","MRT","MUS","MEX","FSM","MDA","MCO","MNG","MNE","MAR","MOZ","MMR","NAM","NRU",
    "NPL","NLD","NZL","NIC","NER","NGA","PRK","MKD","NOR","OMN","PAK","PLW","PAN","PNG","PRY",
    "PER","PHL","POL","PRT","QAT","ROU","RUS","RWA","KNA","LCA","VCT","WSM","SMR","STP","SAU",
    "SEN","SRB","SYC","SLE","SGP","SVK","SVN","SLB","SOM","ZAF","KOR","SSD","ESP","LKA","SDN",
    "SUR","SWE","CHE","SYR","TJK","TZA","THA","TLS","TGO","TON","TTO","TUN","TUR","TKM","TUV",
    "UGA","UKR","ARE","GBR","USA","URY","UZB","VUT","VEN","VNM","YEM","ZMB","ZWE",
    "SUN","YUG","CSK","DDR","SCG","ANT","TMP","ROM","ZAR","BUR","BOH","SUH" }

\* str.upper() on the code strings of the model
Upper(s) == CASE s = "usa" -> "USA" [] s = "Fra" -> "FRA" [] OTHER -> s

\* `code in REAL_COUNTRY_CODES` raises TypeError for an unhashable code
Unhashable(code) == code.ty = "dict"

\* mutant: the membership test ignores case
is_real_country_upper(code) == code.ty = "str" /\ Upper(code.s) \in REAL_COUNTRY_CODES

is_real_country(code) == code.ty = "str" /\ code.s \in REAL_COUNTRY_CODES

\* isinstance(year_val, (int, float)); bool is a subclass of int
IsIntOrFloat(v) == v.ty \in {"int", "float", "bool"}

\* a > b on Python numbers (every comparison with nan is False)
PyGt(a, b) ==
    CASE a.s = "nan" \/ b.s = "nan" -> FALSE
      [] a.s = "-inf" -> FALSE
      [] a.s = "inf" -> b.s # "inf"
      [] b.s = "inf" -> FALSE
      [] b.s = "-inf" -> TRUE
      [] OTHER -> a.n > b.n

\* max(a, b): the first argument unless the second is strictly greater
PyMax(a, b) == IF PyGt(b, a) THEN b ELSE a

RECURSIVE ScanValues(_, _)
ScanValues(max_val, values) ==
    IF values = <<>> THEN max_val
    ELSE LET year_val == Head(values).val
         IN ScanValues(IF IsIntOrFloat(year_val) THEN PyMax(max_val, year_val)
                       ELSE max_val,
                       Tail(values))

RECURSIVE ScanEntries(_, _)
ScanEntries(max_val, entries) ==
    IF entries = <<>> THEN max_val
    ELSE ScanEntries(ScanValues(max_val, Get(Head(entries), "values", <<>>)),
                     Tail(entries))

find_max_value(json_data) == ScanEntries(PNegInf, Get(json_data, "data", <<>>))

find_max_value_only_countries(entries) == ScanEntries(PNegInf, entries)

EntryCode(entry) == Get(entry, "code", PStr(""))

\* the comprehension stops with TypeError at the first unhashable code
FilterRaises(json_data) ==
    \E i \in 1..Len(Get(json_data, "data", <<>>)) :
        Unhashable(EntryCode(Get(json_data, "data", <<>>)[i]))

\* mutant: the scan starts at the second kept entry
filter_only_countries_tail(json_data) ==
    LET kept == SelectSeq(Get(json_data, "data", <<>>),
                          LAMBDA entry : is_real_country(EntryCode(entry)))
    IN IF kept = <<>> THEN kept ELSE Tail(kept)

filter_only_countries(json_data) ==
    SelectSeq(Get(json_data, "data", <<>>),
              LAMBDA entry : is_real_country(EntryCode(entry)))

\* mutant: the filtered list is stored over "data" as well
UpdatedDocNarrow(json_data) ==
    LET d1 == Put(json_data, "max_value", find_max_value(json_data))
        only_countries == filter_only_countries(d1)
        d2 == Put(d1, "only_countries_max_value",
                  find_max_value_only_countries(only_countries))
    IN Put(Put(d2, "only_countries", only_countries), "data", only_countries)

\* mutant: the output is built as a new dict holding data and the derived fields
UpdatedDocFresh(json_data) ==
    LET only_countries == filter_only_countries(json_data)
        d0 == [x \in DOMAIN json_data \cap {"data"} |-> json_data[x]]
        d1 == Put(d0, "max_value", find_max_value(json_data))
        d2 == Put(d1, "only_countries_max_value",
                  find_max_value_only_countries(only_countries))
    IN Put(d2, "only_countries", only_countries)

\* lines 56-67: the document update_json_file dumps
UpdatedDoc(json_data) ==
    LET d1 == Put(json_data, "max_value", find_max_value(json_data))
        only_countries == filter_only_countries(d1)
        d2 == Put(d1, "only_countries_max_value",
                  find_max_value_only_countries(only_countries))
    IN Put(d2, "only_countries", only_countries)

\* lines 50-75: one run of the cleaner on the file at file_path.  open() for
\* reading raises when the file is missing; the write is the last step, so a
\* run that raises leaves the file as it was.
update_json_file ==
    /\ cruns < MaxRuns
    /\ cruns' = cruns + 1
    /\ fileprev' = file
    /\ IF ~file.exists \/ FilterRaises(json_load_doc(file.doc))
       THEN /\ cstatus' = "failed"
            /\ file' = file
       ELSE /\ cstatus' = "done"
            /\ file' = FileOf(json_dump_doc(UpdatedDoc(json_load_doc(file.doc))))
    /\ UNCHANGED file0
    /\ UNCHANGED <<pureVars, extractVars>>

(***************************************************************************)
(* Inputs of the cleaner                                                   *)
(***************************************************************************)
Pair(year, tok) == [key |-> year, val |-> tok]

CleanerValueMaps ==
    { <<>>,
      <<Pair("2020", JInt(100))>>,
      <<Pair("2020", JInt(999))>>,
      <<Pair("2020", JReal(-3)), Pair("2021", JInt(100))>>,
      <<Pair("2020", JLit("true"))>>,
      <<Pair("2020", JStr("n/a")), Pair("2021", JLit("null"))>>,
      <<Pair("2020", JLit("NaN")), Pair("2021", JReal(-3))>> }

CleanerCodes == { JStr("USA"), JStr("XXX"), JObj }

EntriesOf(codes, maps) ==
    { [country |-> JStr("Name"), code |-> c, values |-> m] : c \in codes, m \in maps }
    \cup { [country |-> JStr("Name")] }

SeqsUpTo(S, n) == UNION { [1..k -> S] : k \in 0..n }

Metadata ==
    [name |-> JStr("GDP (current US$)"), unit |-> JStr("USD"),
     source |-> JStr("World Bank"), metric_id |-> JStr("NY.GDP.MKTP.CD")]

\* annotations left by an earlier run over other data
StaleAnnotations(d) ==
    Put(Put(Put(d, "max_value", JInt(12345)),
            "only_countries_max_value", JInt(55555)),
        "only_countries",
        << [country |-> JStr("Old"), code |-> JStr("XXX"),
            values |-> <<Pair("1999", JInt(55555))>>] >>)

DocsOf(entries, n) ==
    LET fresh == { Put(Metadata, "data", es) : es \in SeqsUpTo(entries, n) }
                 \cup { Metadata }
    IN fresh \cup { StaleAnnotations(d) : d \in fresh }

CleanerInputs ==
    { FileOf(d) : d \in DocsOf(EntriesOf(CleanerCodes, CleanerValueMaps), MaxEntries) }
    \cup { NoFile }

PureIdle ==
    /\ pin = EmptyDoc /\ pout = <<>> /\ pout2 = <<>> /\ ppc = "off"

ExtractIdle ==
    /\ argv = <<>> /\ pc = "off" /\ exitcode = -1 /\ opened = FALSE
    /\ fieldnames = <<>> /\ rowsRead = <<>> /\ data = <<>>
    /\ outfiles = <<>> /\ outfiles0 = <<>>

CleanerIdle ==
    /\ file = NoFile /\ file0 = NoFile /\ fileprev = NoFile
    /\ cstatus = "off" /\ cruns = 0

InitCleaner ==
    /\ file \in CleanerInputs
    /\ file0 = file
    /\ fileprev = file
    /\ cstatus = "idle"
    /\ cruns = 0
    /\ PureIdle
    /\ ExtractIdle

NextCleaner == update_json_file

SpecCleaner == InitCleaner /\ [][NextCleaner]_vars

(***************************************************************************)
(* Direct calls of filter_only_countries and find_max_value                *)
(***************************************************************************)
FilterCodes ==
    { JStr("USA"), JStr("FRA"), JStr("usa"), JStr("XXX"), JStr(""),
      JLit("null"), JObj }

FilterInputs ==
    { json_load_doc(d) :
        d \in DocsOf(EntriesOf(FilterCodes, { <<Pair("2020", JInt(100))>> }),
                     MaxEntries) }

CallFilter ==
    /\ ppc = "in"
    /\ IF FilterRaises(pin)
       THEN ppc' = "raised" /\ pout' = pout
       ELSE ppc' = "called" /\ pout' = filter_only_countries(pin)
    /\ UNCHANGED <<pin, pout2>>
    /\ UNCHANGED <<cleanerVars, extractVars>>

\* the result supplied again as the data to filter
CallRefilter ==
    /\ ppc = "called"
    /\ ppc' = "recalled"
    /\ pout2' = filter_only_countries([data |-> pout])
    /\ UNCHANGED <<pin, pout>>
    /\ UNCHANGED <<cleanerVars, extractVars>>

InitFilter ==
    /\ pin \in FilterInputs
    /\ pout = <<>> /\ pout2 = <<>> /\ ppc = "in"
    /\ CleanerIdle
    /\ ExtractIdle

NextFilter == CallFilter \/ CallRefilter

SpecFilter == InitFilter /\ [][NextFilter]_vars

MaxFirst ==
    { JInt(2), JReal(-3), JLit("true"), JLit("null"), JStr("n/a"), JObj,
      JLit("NaN"), JLit("Infinity") }

MaxSecond == { JInt(1), JLit("true"), JLit("-Infinity") }

MaxValueMaps ==
    { <<>> }
    \cup { <<Pair("2020", a)>> : a \in MaxFirst }
    \cup { <<Pair("2021", b)>> : b \in MaxSecond }
    \cup { <<Pair("2020", a), Pair("2021", b)>> : a \in MaxFirst, b \in MaxSecond }

MaxInputs ==
    { json_load_doc(d) :
        d \in DocsOf(EntriesOf({ JStr("USA") }, MaxValueMaps), MaxEntries) }

CallFindMax ==
    /\ ppc = "in"
    /\ ppc' = "called"
    /\ pout' = find_max_value(pin)
    /\ UNCHANGED <<pin, pout2>>
    /\ UNCHANGED <<cleanerVars, extractVars>>

InitMax ==
    /\ pin \in MaxInputs
    /\ pout = PNegInf /\ pout2 = <<>> /\ ppc = "in"
    /\ CleanerIdle
    /\ ExtractIdle

NextMax == CallFindMax

SpecMax == InitMax /\ [][NextMax]_vars

(***************************************************************************)
(* extract_raw_data.py                                                     *)
(***************************************************************************)
indicator_map ==
    [x \in {"NY.GDP.MKTP.CD", "SP.POP.TOTL"} |->
        IF x = "NY.GDP.MKTP.CD"
        THEN [name |-> "GDP (current US$)", unit |-> "USD",
              output_json |-> "public/data/gdp_per_capita.json"]
        ELSE [name |-> "Population", unit |-> "people",
              output_json |-> "public/data/population.json"]]

OutputPaths == { indicator_map[x].output_json : x \in DOMAIN indicator_map }

\* the characters of the header and cell strings of the model
Chars(s) ==
    CASE s = "2020" -> <<"2", "0", "2", "0">>
      [] s = "2021" -> <<"2", "0", "2", "1">>
      [] s = "123" -> <<"1", "2", "3">>
      [] s = "21000" -> <<"2", "1", "0", "0", "0">>
      [] s = "0" -> <<"0">>
      [] s = "abc" -> <<"a", "b", "c">>
      [] s = "" -> <<>>
      [] s = "Country Name" -> <<"C","o","u","n","t","r","y"," ","N","a","m","e">>
      [] s = "Country Code" -> <<"C","o","u","n","t","r","y"," ","C","o","d","e">>
      [] s = "Indicator Name" -> <<"I","n","d","i","c","a","t","o","r"," ","N","a","m","e">>
      [] s = "Indicator Code" -> <<"I","n","d","i","c","a","t","o","r"," ","C","o","d","e">>
      [] OTHER -> <<"?">>

Digits == {"0", "1", "2", "3", "4", "5", "6", "7", "8", "9"}

\* str.isdigit(): at least one character and every character a digit
isdigit(s) == Len(Chars(s)) > 0 /\ \A i \in 1..Len(Chars(s)) : Chars(s)[i] \in Digits

RECURSIVE DecimalValue(_)
DecimalValue(cs) ==
    IF cs = <<>> THEN 0
    ELSE 10 * DecimalValue(SubSeq(cs, 1, Len(cs) - 1))
         + (CHOOSE d \in 0..9 : ToString(d) = cs[Len(cs)])

\* float(cell) on the cells of the model: a digit string converts, the empty
\* string and text raise ValueError
FloatRaises(s) == ~isdigit(s)
float(s) == PFloat(DecimalValue(Chars(s)))

Range(seq) == { seq[i] : i \in 1..Len(seq) }

RECURSIVE Dedup(_)
Dedup(seq) ==
    IF seq = <<>> THEN <<>>
    ELSE LET front == Dedup(SubSeq(seq, 1, Len(seq) - 1))
         IN IF seq[Len(seq)] \in Range(front) THEN front
            ELSE Append(front, seq[Len(seq)])

\* csv.DictReader.__next__: dict(zip(fieldnames, line)); fields beyond the
\* header go under restkey (None), header fields beyond the line get restval
\* (None).  A repeated header keeps its first position and its last value.
DictRow(h, line) ==
    LET keys == Dedup(h)
        last(k) == CHOOSE i \in 1..Len(h) :
                      h[i] = k /\ \A j \in 1..Len(h) : h[j] = k => j <= i
    IN [items |-> [i \in 1..Len(keys) |->
                     [key |-> keys[i],
                      val |-> IF last(keys[i]) <= Len(line)
                              THEN PStr(line[last(keys[i])]) ELSE PNone]],
        rest |-> Len(line) > Len(h)]

HasKey(row, k) == \E i \in 1..Len(row.items) : row.items[i].key = k

\* the value the row holds under k (None for a key it lacks, as row.get(k))
RowGet(row, k) ==
    IF HasKey(row, k)
    THEN row.items[CHOOSE i \in 1..Len(row.items) : row.items[i].key = k].val
    ELSE PNone

\* mutant: fields are read with row.get(k), which never raises
LookupRaisesNever(row, k) == FALSE

\* row[k] raises KeyError for a key the row lacks
LookupRaises(row, k) == ~HasKey(row, k)

\* mutant: the `continue` of line 45 is lost
RowMatchesAlways(row, indicator_code) == TRUE

\* line 44, for a row that has the field
RowMatches(row, indicator_code) == RowGet(row, "Indicator Code") = PStr(indicator_code)

\* line 49: year.isdigit() and row[year] not in ("", None)
YearIncluded(item) == isdigit(item.key) /\ item.val \notin {PStr(""), PNone}

\* line 49 raises: float() on a cell that does not convert, or None.isdigit()
\* for the restkey of a line longer than the header
ValuesRaise(row) ==
    \/ \E i \in 1..Len(row.items) :
          YearIncluded(row.items[i]) /\ FloatRaises(row.items[i].val.s)
    \/ row.rest

\* mutant: empty and missing cells are filled with 0.0
YearValuesZeroFilled(row) ==
    LET years == SelectSeq(row.items, LAMBDA item : isdigit(item.key))
    IN [i \in 1..Len(years) |->
          [key |-> years[i].key,
           val |-> IF years[i].val \in {PStr(""), PNone} THEN PFloat(0)
                   ELSE float(years[i].val.s)]]

\* line 49: the dict comprehension, in the row's key order
YearValues(row) ==
    LET years == SelectSeq(row.items, YearIncluded)
    IN [i \in 1..Len(years) |-> [key |-> years[i].key, val |-> float(years[i].val.s)]]

\* lines 44-54 raise on this row
RowRaises(row, indicator_code) ==
    \/ LookupRaises(row, "Indicator Code")
    \/ /\ RowMatches(row, indicator_code)
       /\ \/ LookupRaises(row, "Country Name")
          \/ LookupRaises(row, "Country Code")
          \/ ValuesRaise(row)

\* lines 46-54: the entry appended for a matching row
EntryFor(row) ==
    [country |-> RowGet(row, "Country Name"),
     code |-> RowGet(row, "Country Code"),
     values |-> YearValues(row)]

\* lines 56-62
Output(indicator_code, entries) ==
    [name |-> PStr(indicator_map[indicator_code].name),
     unit |-> PStr(indicator_map[indicator_code].unit),
     source |-> PStr("World Bank"),
     metric_id |-> PStr(indicator_code),
     data |-> entries]

\* mutant: sys.exit() is called without its argument
sys_exit_no_status(status) == [pc |-> "exited", exitcode |-> 0]

\* sys.exit(status)
sys_exit(status) == [pc |-> "exited", exitcode |-> status]

\* lines 22-24
CheckArgs ==
    /\ pc = "start"
    /\ IF Len(argv) < 3
       THEN pc' = sys_exit(1).pc /\ exitcode' = sys_exit(1).exitcode
       ELSE pc' = "check_code" /\ exitcode' = exitcode
    /\ UNCHANGED <<argv, opened, fieldnames, rowsRead, data, outfiles, outfiles0>>
    /\ UNCHANGED <<cleanerVars, pureVars>>

\* lines 26-35
CheckIndicator ==
    /\ pc = "check_code"
    /\ IF argv[3] \notin DOMAIN indicator_map
       THEN pc' = sys_exit(1).pc /\ exitcode' = sys_exit(1).exitcode
       ELSE pc' = "open" /\ exitcode' = exitcode
    /\ UNCHANGED <<argv, opened, fieldnames, rowsRead, data, outfiles, outfiles0>>
    /\ UNCHANGED <<cleanerVars, pureVars>>

\* line 40 when csv_file does not exist: FileNotFoundError, uncaught
OpenCsvMissing ==
    /\ pc = "open"
    /\ pc' = "raised"
    /\ exitcode' = 1
    /\ UNCHANGED <<argv, opened, fieldnames, rowsRead, data, outfiles, outfiles0>>
    /\ UNCHANGED <<cleanerVars, pureVars>>

\* the header lines the CSV file may start with (<<>>: no header line)
Headers ==
    { <<"Country Name", "Country Code", "Indicator Name", "Indicator Code", "2020", "2021">>,
      <<"Country Name", "Country Code", "2020", "2021">>,
      <<"Country Code", "Indicator Code", "2020", "2021">>,
      <<"Country Name", "Indicator Code", "2020", "2021">>,
      <<"Country Name", "Country Code", "Indicator Code", "123", "2021">>,
      <<"Country Name", "Country Code", "Indicator Code", "2020", "2020">>,
      <<>> }

\* lines 40-42: open the file, read the header line
OpenCsv ==
    /\ pc = "open"
    /\ \E h \in Headers : fieldnames' = h
    /\ opened' = TRUE
    /\ pc' = "rows"
    /\ UNCHANGED <<argv, exitcode, rowsRead, data, outfiles, outfiles0>>
    /\ UNCHANGED <<cleanerVars, pureVars>>

\* the data lines of the model: what a line holds under each column
Templates ==
    { [country |-> c[1], code |-> c[2], ind |-> c[3], y1 |-> y[1], y2 |-> y[2]] :
        c \in { <<"United States", "USA", "NY.GDP.MKTP.CD">>,
                <<"World", "WLD", "NY.GDP.MKTP.CD">>,
                <<"United States", "USA", "SP.POP.TOTL">> },
        y \in { <<"", "">>, <<"21000", "0">>, <<"21000", "">>, <<"abc", "0">> } }

\* the line of template t under header h; the year columns take y1 and y2 in
\* column order
LineOf(h, t) ==
    [i \in 1..Len(h) |->
        CASE h[i] = "Country Name" -> t.country
          [] h[i] = "Country Code" -> t.code
          [] h[i] = "Indicator Code" -> t.ind
          [] h[i] = "Indicator Name" -> "GDP (current US$)"
          [] OTHER -> IF i = Len(h) THEN t.y2 ELSE t.y1]

\* full lines, the blank line, a line cut short and a line with an extra field
Lines(h) ==
    { LineOf(h, t) : t \in Templates }
    \cup { <<>> }
    \cup { SubSeq(LineOf(h, t), 1, Len(h) - 1) :
             t \in { u \in Templates : u.code = "USA" /\ u.y1 = "21000" /\ u.y2 = "0"
                                       /\ Len(h) > 0 } }
    \cup { Append(LineOf(h, t), "extra") :
             t \in { u \in Templates : u.code = "WLD" /\ u.y1 = "21000" /\ u.y2 = "0" } }

\* lines 43-54: one turn of the loop; the reader skips blank lines
ReadRow ==
    /\ pc = "rows"
    /\ Len(rowsRead) < MaxRows
    /\ \E line \in Lines(fieldnames) :
          /\ rowsRead' = Append(rowsRead, line)
          /\ IF line = <<>>
             THEN UNCHANGED <<pc, exitcode, data>>
             ELSE LET row == DictRow(fieldnames, line)
                  IN IF RowRaises(row, argv[3])
                     THEN pc' = "raised" /\ exitcode' = 1 /\ data' = data
                     ELSE /\ UNCHANGED <<pc, exitcode>>
                          /\ data' = IF RowMatches(row, argv[3])
                                     THEN Append(data, EntryFor(row))
                                     ELSE data
    /\ UNCHANGED <<argv, opened, fieldnames, outfiles, outfiles0>>
    /\ UNCHANGED <<cleanerVars, pureVars>>

\* the reader is exhausted
EndOfFile ==
    /\ pc = "rows"
    /\ pc' = "write"
    /\ UNCHANGED <<argv, exitcode, opened, fieldnames, rowsRead, data, outfiles, outfiles0>>
    /\ UNCHANGED <<cleanerVars, pureVars>>

\* lines 56-67; the process then ends with status 0
WriteOutput ==
    /\ pc = "write"
    /\ outfiles' = [outfiles EXCEPT ![indicator_map[argv[3]].output_json] =
                       FileOf(json_dump_doc(Output(argv[3], data)))]
    /\ pc' = "done"
    /\ exitcode' = 0
    /\ UNCHANGED <<argv, opened, fieldnames, rowsRead, data, outfiles0>>
    /\ UNCHANGED <<cleanerVars, pureVars>>

Argvs ==
    { <<"extract_raw_data.py">>,
      <<"extract_raw_data.py", "sample.csv">>,
      <<"extract_raw_data.py", "sample.csv", "NY.GDP.MKTP.CD">>,
      <<"extract_raw_data.py", "sample.csv", "SP.POP.TOTL", "extra">>,
      <<"extract_raw_data.py", "sample.csv", "XX.UNKNOWN">>,
      <<"extract_raw_data.py", "sample.csv", "ny.gdp.mktp.cd">> }

OldOutput == FileOf(Put(Metadata, "data", <<>>))

InitExtract ==
    /\ argv \in Argvs
    /\ pc = "start"
    /\ exitcode = -1
    /\ opened = FALSE
    /\ fieldnames = <<>>
    /\ rowsRead = <<>>
    /\ data = <<>>
    /\ outfiles \in { [p \in OutputPaths |-> NoFile], [p \in OutputPaths |-> OldOutput] }
    /\ outfiles0 = outfiles
    /\ CleanerIdle
    /\ PureIdle

NextExtract ==
    \/ CheckArgs
    \/ CheckIndicator
    \/ OpenCsvMissing
    \/ OpenCsv
    \/ ReadRow
    \/ EndOfFile
    \/ WriteOutput

SpecExtract == InitExtract /\ [][NextExtract]_vars

(***************************************************************************)
(* Properties of the cleaner                                               *)
(***************************************************************************)
\* numeric value of a Python number, whatever its type
NumEq(a, b) == a.s = b.s /\ a.n = b.n

\* the numbers of the value mappings of a list of loaded entries: ints and
\* floats, not booleans; NaN has no place in an order and is left out
ValuesOf(entry) == IF "values" \in DOMAIN entry THEN entry["values"] ELSE <<>>

NumbersOf(entries) ==
    { v \in UNION { { ValuesOf(entries[i])[j].val : j \in 1..Len(ValuesOf(entries[i])) } :
                    i \in 1..Len(entries) } :
        v.ty \in {"int", "float"} /\ v.s # "nan" }

\* r is the maximum of the set N of numbers, negative infinity for an empty N
IsMaxOf(r, N) ==
    IF N = {} THEN r = PNegInf
    ELSE /\ r.ty \in {"int", "float"}
         /\ \E v \in N : NumEq(r, v)
         /\ \A w \in N : ~PyGt(w, r)

\* the entries whose code is an exact member of the allow-list
Allowed(entry) ==
    /\ "code" \in DOMAIN entry
    /\ entry["code"].ty = "str"
    /\ \E c \in REAL_COUNTRY_CODES : c = entry["code"].s

InData(doc) == IF "data" \in DOMAIN doc THEN doc["data"] ELSE <<>>

\* sub is the subsequence of full made of exactly the entries satisfying Allowed
IsAllowedSubsequence(sub, full) ==
    /\ Len(sub) = Cardinality({ j \in 1..Len(full) : Allowed(full[j]) })
    /\ \E f \in [1..Len(sub) -> 1..Len(full)] :
          /\ \A i \in 1..Len(sub) : sub[i] = full[f[i]] /\ Allowed(full[f[i]])
          /\ \A i, j \in 1..Len(sub) : i < j => f[i] < f[j]

\* C1 (as claimed): after a successful run the written max_value is the
\* maximum numeric value over the value mappings of all entries of data, and
\* only_countries_max_value the maximum over the allow-listed entries.
C1_MaxFieldsAreNumericMaxima ==
    (cstatus = "done") =>
        LET before == json_load_doc(fileprev.doc)
            after == json_load_doc(file.doc)
            listed == SelectSeq(InData(before), Allowed)
        IN /\ IsMaxOf(after["max_value"], NumbersOf(InData(before)))
           /\ IsMaxOf(after["only_countries_max_value"], NumbersOf(listed))

\* C2: filter_only_countries returns exactly the entries of data whose code is
\* an exact, case-sensitive member of the allow-list, in their original order;
\* entries with a missing, empty or differently cased code are dropped.
C2_FilterKeepsExactlyAllowListed ==
    (ppc \in {"called", "recalled"}) =>
        /\ IsAllowedSubsequence(pout, InData(pin))
        /\ \A i \in 1..Len(pout) :
              /\ "code" \in DOMAIN pout[i]
              /\ pout[i]["code"] \notin { PStr(""), PStr("usa"), PStr("XXX"), PNone }

C2_Witness ==
    /\ ppc = "called"
    /\ Len(InData(pin)) = 2
    /\ Len(pout) = 1
    /\ \E i \in 1..2 : "code" \in DOMAIN InData(pin)[i]
                       /\ InData(pin)[i]["code"] = PStr("usa")

\* C3: a run leaves data and the metadata fields name, unit, source and
\* metric_id of the file as they were; only max_value,
\* only_countries_max_value and only_countries are added or replaced.
C3_DataAndMetadataUntouched ==
    (cstatus = "done") =>
        /\ DOMAIN file.doc =
              DOMAIN fileprev.doc
              \cup {"max_value", "only_countries_max_value", "only_countries"}
        /\ \A x \in DOMAIN file.doc \ {"max_value", "only_countries_max_value",
                                       "only_countries"} :
              /\ file.doc[x] = fileprev.doc[x]
              /\ file.doc[x] = file0.doc[x]

C3_Witness ==
    /\ cstatus = "done"
    /\ cruns = 1
    /\ "data" \in DOMAIN file.doc
    /\ Len(file.doc["data"]) = 2
    /\ Len(file.doc["only_countries"]) = 1
    /\ "max_value" \notin DOMAIN file0.doc
    /\ \E i \in 1..2 : \E j \in 1..Len(ValuesOf(file.doc["data"][i])) :
          ValuesOf(file.doc["data"][i])[j].val = JReal(-3)

\* C4: the second of two runs in a row writes the same max_value and
\* only_countries_max_value as the first, negative infinity included.
C4_SecondRunWritesSameMaxima ==
    (cstatus = "done" /\ cruns >= 2) =>
        /\ file.doc["max_value"] = fileprev.doc["max_value"]
        /\ file.doc["only_countries_max_value"] =
              fileprev.doc["only_countries_max_value"]

C4_Witness ==
    /\ cstatus = "done"
    /\ cruns = 2
    /\ file.doc["only_countries_max_value"] = JLit("-Infinity")
    /\ file.doc["max_value"] = JInt(999)
    /\ "max_value" \in DOMAIN file0.doc
    /\ file0.doc["max_value"] # file.doc["max_value"]

\* C8 (as claimed): find_max_value returns the maximum over exactly the
\* numeric values of the value mappings of all entries of data, ignoring
\* strings, null, booleans and nested objects, and negative infinity when
\* there is no numeric value.
C8_FindMaxIgnoresNonNumbers ==
    (ppc = "called") => IsMaxOf(pout, NumbersOf(InData(pin)))

\* C9: filtering an already filtered array again yields the same array.
C9_FilterIdempotent ==
    (ppc = "recalled") => pout2 = pout

C9_Witness ==
    /\ ppc = "recalled"
    /\ Len(InData(pin)) = 2
    /\ Len(pout) = 1
    /\ pout2 = pout

(***************************************************************************)
(* Properties of the extractor                                             *)
(***************************************************************************)
HeaderHas(name) == \E i \in 1..Len(fieldnames) : fieldnames[i] = name

\* what the output holds for the field of a line under a header: the cell of
\* the last column bearing that header, null when the line ends before it
CellUnder(line, name) ==
    LET col == CHOOSE i \in 1..Len(fieldnames) :
                  fieldnames[i] = name
                  /\ \A j \in 1..Len(fieldnames) : fieldnames[j] = name => j <= i
    IN IF col <= Len(line) THEN JStr(line[col]) ELSE JLit("null")

Matching(line) ==
    /\ line # <<>>
    /\ HeaderHas("Indicator Code")
    /\ CellUnder(line, "Indicator Code") = JStr(argv[3])

MatchingLines == SelectSeq(rowsRead, Matching)

Written == outfiles[indicator_map[argv[3]].output_json].doc

KeysOf(values) == { values[j].key : j \in 1..Len(values) }

DigitsOnly(s) == Chars(s) # <<>> /\ Range(Chars(s)) \subseteq Digits

YearHeaders == { h \in Range(fieldnames) : DigitsOnly(h) }

\* a key of values is absent iff the cell of its column is empty or missing
AbsentIffEmpty(values, line) ==
    /\ Cardinality(KeysOf(values)) = Len(values)
    /\ \A k \in YearHeaders :
          (k \notin KeysOf(values)) <=> (CellUnder(line, k) \in {JStr(""), JLit("null")})

\* C5: the output data array has one entry per line whose "Indicator Code"
\* equals the requested code, in line order, each carrying that line's country
\* name and country code.
C5_OneEntryPerMatchingRow ==
    (pc = "done") =>
        /\ Len(Written["data"]) = Len(MatchingLines)
        /\ \A i \in 1..Len(MatchingLines) :
              /\ Written["data"][i]["country"] = CellUnder(MatchingLines[i], "Country Name")
              /\ Written["data"][i]["code"] = CellUnder(MatchingLines[i], "Country Code")

C5_Witness ==
    /\ pc = "done"
    /\ Len(rowsRead) = 2
    /\ Len(Written["data"]) = 2
    /\ Written["data"][1]["code"] = JStr("USA")
    /\ Written["data"][2]["code"] = JStr("WLD")

\* C6 (as claimed): every key of values is a 4-digit numeric string, and a
\* year column's key is absent iff the cell of that row was empty or missing.
C6_KeysAreFourDigitYears ==
    (pc = "done") =>
        \A i \in 1..Len(Written["data"]) :
            /\ \A k \in KeysOf(Written["data"][i]["values"]) :
                  DigitsOnly(k) /\ Len(Chars(k)) = 4
            /\ AbsentIffEmpty(Written["data"][i]["values"], MatchingLines[i])

\* C6 (amended): every key of values is a non-empty digits-only header of the
\* CSV, of any length, and such a header's key is absent iff the cell of the
\* row under it (the last column bearing it) was empty or missing.
C6_KeysAreDigitHeaders ==
    (pc = "done") =>
        \A i \in 1..Len(Written["data"]) :
            /\ KeysOf(Written["data"][i]["values"]) \subseteq YearHeaders
            /\ AbsentIffEmpty(Written["data"][i]["values"], MatchingLines[i])

C6_Witness ==
    /\ pc = "done"
    /\ \E i \in 1..Len(Written["data"]) :
          /\ KeysOf(Written["data"][i]["values"]) = {"123"}
          /\ "2021" \in YearHeaders
          /\ CellUnder(MatchingLines[i], "2021") = JStr("")

BadArguments == Len(argv) < 3 \/ argv[3] \notin {"NY.GDP.MKTP.CD", "SP.POP.TOTL"}

\* C7: with fewer than two positional arguments or an indicator code that is
\* no key of the configuration, the extractor ends with exit status 1, never
\* opens the CSV and leaves every output file as it was.
C7_BadArgumentsExitOne ==
    BadArguments =>
        /\ ~opened
        /\ outfiles = outfiles0
        /\ pc \in {"start", "check_code", "exited"}
        /\ (pc = "exited") <=> (exitcode = 1)
        /\ (pc # "exited") <=> (exitcode = -1)

C7_Witness ==
    /\ pc = "exited"
    /\ exitcode = 1
    /\ Len(argv) = 3
    /\ \A p \in OutputPaths : outfiles[p].exists

LacksExpectedHeader ==
    ~(HeaderHas("Indicator Code") /\ HeaderHas("Country Name") /\ HeaderHas("Country Code"))

\* C10 (as claimed): with a CSV lacking an expected header, a run with a
\* configured indicator code ends in an uncaught failure and writes nothing,
\* however many data rows there are and whether or not any row matches
\* (stated here for the CSV files that do have a header line).
C10_MissingHeaderAlwaysFails ==
    (opened /\ fieldnames # <<>> /\ LacksExpectedHeader /\ pc \in {"done", "raised"}) =>
        (pc = "raised" /\ exitcode = 1 /\ outfiles = outfiles0)

\* a line whose processing reads a field the header lacks
ReadsMissingField(line) ==
    /\ line # <<>>
    /\ \/ ~HeaderHas("Indicator Code")
       \/ Matching(line)

\* C10 (amended): with a CSV lacking an expected header, the run ends in an
\* uncaught failure, writing nothing, exactly when the CSV holds a data row
\* that reads the missing field: any non-blank row when "Indicator Code" is
\* the missing header, a row matching the requested code when "Country Name"
\* or "Country Code" is; without such a row the run completes and writes an
\* output with an empty data array.
C10_MissingHeaderFailsOnFirstUse ==
    (opened /\ LacksExpectedHeader) =>
        /\ (pc = "raised") <=> (\E i \in 1..Len(rowsRead) : ReadsMissingField(rowsRead[i]))
        /\ (pc = "raised") => (exitcode = 1 /\ outfiles = outfiles0)
        /\ (pc = "done") => (exitcode = 0 /\ Written["data"] = <<>>)

C10_Witness ==
    /\ opened
    /\ pc = "raised"
    /\ HeaderHas("Indicator Code") /\ HeaderHas("Country Code")
    /\ ~HeaderHas("Country Name")
    /\ Len(rowsRead) = 2
    /\ ~Matching(rowsRead[1])
    /\ Matching(rowsRead[2])
    /\ \A p \in OutputPaths : outfiles[p].exists /\ outfiles[p] = outfiles0[p]

====
